---- MODULE Spec2Model ----
(***************************************************************************)
(* Model of scripts/create_app_icon.py: the script that draws the 512x512  *)
(* RGBA application icon with PIL and saves it as a PNG.                   *)
(*                                                                         *)
(* The canvas is observed on a finite set of pixels (Pix).  Every observed *)
(* pixel lies at least one pixel away from the outline of every shape the  *)
(* script draws, so that whether a shape covers it is decided by the       *)
(* shape's geometry and not by the rasteriser's treatment of its outline.  *)
(* ImageDraw on an 'RGBA' image stores the fill into the covered pixels,   *)
(* alpha included; it does not composite it over what is there.            *)
(*                                                                         *)
(* Coordinates the script computes as floats (leaf_size * 0.6, ...) are    *)
(* kept exactly, in tenths of a pixel.                                     *)
(***************************************************************************)
EXTENDS Integers, Sequences, FiniteSets

VARIABLES
    pc,         \* position of the script
    img,        \* the canvas, a function on Pix, <<>> before Image.new
    it,         \* how many elements the running for loop has consumed
    i,          \* loop variable of the gradient loop
    ops,        \* the calls made on the drawing library in this run, in order
    stdout,     \* the lines printed in this run
    writes,     \* how many times this run has written the output file
    dirExists,  \* file system: does assets/icons/ exist
    file,       \* file system: content of assets/icons/app_icon.png
    run,        \* number of the current invocation of the script
    past,       \* what the earlier invocations did
    encoding,   \* environment: the encoding of sys.stdout
    exc         \* the exception that ended this run, "" when there is none

vars == <<pc, img, it, i, ops, stdout, writes, dirExists, file, run, past, encoding, exc>>

\* How many times the script is invoked in one behaviour.
MaxRuns == 2

--------------------------------------------------------------------------
(* Constants of the script *)

size == 512

color1 == <<102, 187, 106>>

color2 == <<46, 125, 50>>

steps == 50

\* int(size * 0.2)
corner_radius == (size * 2) \div 10

center_x == size \div 2

center_y == size \div 2

leaf_size_ceil == (size * 35 + 99) \div 100

\* int(size * 0.35)
leaf_size == (size * 35) \div 100

\* range(n) of Python, as the sequence of the values it yields
Range_offbyone(n) == [k \in 1..(n + 1) |-> k - 1]

Range(n) == [k \in 1..n |-> k - 1]

--------------------------------------------------------------------------
(* The observed pixels *)

Corners == {<<0, 0>>, <<0, size - 1>>, <<size - 1, 0>>, <<size - 1, size - 1>>}

Centre == <<center_x, center_y>>

Pix == Corners \cup
       { Centre,
         <<256, 9>>,     \* inside rectangles 0..4 only
         <<256, 61>>,    \* inside rectangles 0..30 only
         <<30, 49>>,     \* in the rounded corner: inside rectangles 0..4 only
         <<256, 400>>,   \* inside every rectangle, outside the leaf
         <<256, 340>>,   \* in the notch between the two lower lobes of the leaf
         <<300, 350>>,   \* in the lower right lobe of the leaf
         <<300, 256>>,   \* in the leaf, off the vein and the dots
         <<184, 238>>,   \* in the first dot
         <<328, 274>>,   \* in the second dot
         <<238, 328>> }  \* in the third dot

Abs(n) == IF n < 0 THEN -n ELSE n

Min(a, b) == IF a < b THEN a ELSE b

Max(a, b) == IF a < b THEN b ELSE a

--------------------------------------------------------------------------
(* The drawing library, as far as the script uses it *)

\* Image.new('RGBA', (size, size), (0, 0, 0, 0))
NewCanvas(color) == [p \in Pix |-> color]

\* Is pixel p inside the rounded rectangle box = <<x0, y0, x1, y1>> of radius r
RoundedRectCovers_square(p, box, r) ==
    /\ box[1] <= p[1] /\ p[1] <= box[3]
    /\ box[2] <= p[2] /\ p[2] <= box[4]

RoundedRectCovers(p, box, r) ==
    LET x  == p[1]
        y  == p[2]
        cx == IF x < box[1] + r THEN box[1] + r
              ELSE IF x > box[3] - r THEN box[3] - r ELSE x
        cy == IF y < box[2] + r THEN box[2] + r
              ELSE IF y > box[4] - r THEN box[4] - r ELSE y
    IN  /\ box[1] <= x /\ x <= box[3]
        /\ box[2] <= y /\ y <= box[4]
        /\ (x - cx) * (x - cx) + (y - cy) * (y - cy) <= r * r

\* Does the edge from a to b (tenths) cross the ray going right from P (tenths)
EdgeCrosses(P, a, b) ==
    /\ (a[2] > P[2]) # (b[2] > P[2])
    /\ IF b[2] > a[2]
       THEN (P[1] - a[1]) * (b[2] - a[2]) < (P[2] - a[2]) * (b[1] - a[1])
       ELSE (P[1] - a[1]) * (b[2] - a[2]) > (P[2] - a[2]) * (b[1] - a[1])

\* Is pixel p inside the closed polygon pts (a sequence of points in tenths)
PolygonCovers(p, pts) ==
    LET P == <<10 * p[1], 10 * p[2]>>
        n == Len(pts)
        crossing == { k \in 1..n : EdgeCrosses(P, pts[k], pts[(k % n) + 1]) }
    IN  Cardinality(crossing) % 2 = 1

\* Is pixel p on the line from a to b (tenths) drawn w pixels wide.  The
\* script draws one line, and it is vertical; horizontal ones are as simple.
LineCovers(p, a, b, w) ==
    LET X == 10 * p[1]
        Y == 10 * p[2]
    IN  IF a[1] = b[1]
        THEN /\ 2 * Abs(X - a[1]) <= 10 * w
             /\ Min(a[2], b[2]) <= Y /\ Y <= Max(a[2], b[2])
        ELSE /\ a[2] = b[2]
             /\ 2 * Abs(Y - a[2]) <= 10 * w
             /\ Min(a[1], b[1]) <= X /\ X <= Max(a[1], b[1])

\* Is pixel p inside the ellipse inscribed in box = <<x0, y0, x1, y1>> (tenths).
\* The script's ellipses are circles: x1 - x0 = y1 - y0.
EllipseCovers(p, box) ==
    LET dx == 20 * p[1] - (box[1] + box[3])
        dy == 20 * p[2] - (box[2] + box[4])
        d  == box[3] - box[1]
    IN  dx * dx + dy * dy <= d * d

\* Drawing with compositing: the fill is blended over the pixel (what
\* ImageDraw.Draw(img, 'RGBA') does on an 'RGB' image)
Store_blend(old, fill) ==
    LET a == fill[4] + (old[4] * (255 - fill[4])) \div 255
        ch(k) == IF a = 0 THEN 0
                 ELSE (fill[k] * fill[4] + (old[k] * old[4] * (255 - fill[4])) \div 255) \div a
    IN  <<ch(1), ch(2), ch(3), a>>

\* What a covered pixel holds after a drawing call with this fill
Store(old, fill) == fill

\* The canvas after a shape covering the pixels in covered is drawn
Paint(im, covered, fill) ==
    [p \in Pix |-> IF p \in covered THEN Store(im[p], fill) ELSE im[p]]

\* Image.save as PNG: a lossless encoding of mode, size and pixels
EncodePNG(im) == [format |-> "PNG", mode |-> "RGBA", dims |-> <<size, size>>, data |-> im]

NoFile == [format |-> "absent", mode |-> "", dims |-> <<0, 0>>, data |-> <<>>]

\* Some content left at the output path by something else
StaleFile == EncodePNG([p \in Pix |-> <<0, 0, 0, 255>>])

\* One call on the drawing library, as logged in ops
Op(name, xy, arg, fill) == [op |-> name, xy |-> xy, arg |-> arg, fill |-> fill]

--------------------------------------------------------------------------
(* The values the script computes *)

\* int(c1 * (1 - ratio) + c2 * ratio) with ratio = k / (steps - 1), rounded
\* to the nearest integer instead of truncated
Lerp_round(c1, c2, k) ==
    (2 * (c1 * ((steps - 1) - k) + c2 * k) + (steps - 1)) \div (2 * (steps - 1))

\* The same with ratio = k / steps
Lerp_ratio(c1, c2, k) == (c1 * (steps - k) + c2 * k) \div steps

\* int(c1 * (1 - ratio) + c2 * ratio) with ratio = k / (steps - 1).  The
\* float expression is at least 46, and int() truncates it.  For the 50 values
\* of k and the three channel pairs of the script the double-precision result
\* truncates to the same integer as the exact quotient.
Lerp(c1, c2, k) == (c1 * ((steps - 1) - k) + c2 * k) \div (steps - 1)

\* fill=(r, g, b, 255) of gradient step k
GradientFill(k) ==
    << Lerp(color1[1], color2[1], k),
       Lerp(color1[2], color2[2], k),
       Lerp(color1[3], color2[3], k),
       255 >>

\* offset = int(i * 2), and the box the rectangle is drawn in
GradientBox_unscaled(k) == <<k, k, size - k, size - k>>

GradientBox(k) == <<k * 2, k * 2, size - k * 2, size - k * 2>>

\* leaf_points, in tenths of a pixel
leaf_points ==
    << <<10 * center_x,                 10 * center_y - 10 * leaf_size>>,
       <<10 * center_x + leaf_size * 6, 10 * center_y - leaf_size * 3>>,
       <<10 * center_x + leaf_size * 8, 10 * center_y + leaf_size * 2>>,
       <<10 * center_x + leaf_size * 3, 10 * center_y + leaf_size * 6>>,
       <<10 * center_x,                 10 * center_y + leaf_size * 4>>,
       <<10 * center_x - leaf_size * 3, 10 * center_y + leaf_size * 6>>,
       <<10 * center_x - leaf_size * 8, 10 * center_y + leaf_size * 2>>,
       <<10 * center_x - leaf_size * 6, 10 * center_y - leaf_size * 3>> >>

\* vein_points, in tenths of a pixel
vein_points ==
    << <<10 * center_x, 10 * center_y - leaf_size * 8>>,
       <<10 * center_x, 10 * center_y + leaf_size * 3>> >>

\* detail_points, in tenths of a pixel
detail_points ==
    << <<10 * center_x - leaf_size * 4, 10 * center_y - leaf_size * 1>>,
       <<10 * center_x + leaf_size * 4, 10 * center_y + leaf_size * 1>>,
       <<10 * center_x - leaf_size * 1, 10 * center_y + leaf_size * 4>> >>

\* [point[0]-4, point[1]-4, point[0]+4, point[1]+4], in tenths of a pixel
DotBox(pt) == <<pt[1] - 40, pt[2] - 40, pt[1] + 40, pt[2] + 40>>

\* The two status lines.  Each starts with one character outside ASCII and
\* goes on in ASCII: a line is kept as <<code point of the first character,
\* the rest>>.
\* '\u2705 Generated app icon: assets/icons/app_icon.png'
line1 == <<9989, " Generated app icon: assets/icons/app_icon.png">>

\* '\U0001F4CF Icon size: 512x512px'
line2 == <<128207, " Icon size: 512x512px">>

\* The encodings of sys.stdout considered
Encodings == {"utf-8", "ascii", "latin-1"}

\* Can the encoding enc represent the code point cp
Encodable(cp, enc) ==
    CASE enc = "utf-8" -> TRUE
      [] enc = "ascii" -> cp < 128
      [] enc = "latin-1" -> cp < 256

\* print(line): sys.stdout encodes the whole line before it writes any of
\* it; every encoding considered represents the ASCII rest of the line
CanPrint(line) == Encodable(line[1], encoding)

--------------------------------------------------------------------------
(* The script, statement by statement *)

\* The values the state takes
RGBA == (0..255) \X (0..255) \X (0..255) \X (0..255)

TypeOK ==
    /\ pc \in {"new", "gradient", "leaf", "vein", "dots", "save",
               "print1", "print2", "done", "error"}
    /\ (pc = "new" => img = <<>>)
    /\ (pc # "new" => img \in [Pix -> RGBA])
    /\ it \in 0..steps
    /\ i \in 0..(steps - 1)
    /\ Len(ops) <= steps + 6
    /\ Len(stdout) <= 2
    /\ writes \in 0..1
    /\ dirExists \in BOOLEAN
    /\ (file = NoFile \/ (file.format = "PNG" /\ file.data \in [Pix -> RGBA]))
    /\ run \in 1..MaxRuns
    /\ Len(past) = run - 1
    /\ encoding \in Encodings
    /\ exc \in {"", "FileNotFoundError", "UnicodeEncodeError"}
    /\ (pc = "error") = (exc # "")

Init ==
    /\ pc = "new"
    /\ img = <<>>
    /\ it = 0
    /\ i = 0
    /\ ops = <<>>
    /\ stdout = <<>>
    /\ writes = 0
    /\ run = 1
    /\ past = <<>>
    /\ dirExists \in BOOLEAN
    /\ file \in {NoFile, StaleFile}
    /\ (~dirExists => file = NoFile)
    /\ encoding \in Encodings
    /\ exc = ""

\* The canvas taken from the output file of an earlier run when there is one
NewImage_fromfile ==
    /\ pc = "new"
    /\ img' = IF file # NoFile THEN file.data ELSE NewCanvas(<<0, 0, 0, 0>>)
    /\ ops' = Append(ops, Op("new", <<size, size>>, 0, <<0, 0, 0, 0>>))
    /\ it' = 0
    /\ pc' = "gradient"
    /\ UNCHANGED <<i, stdout, writes, dirExists, file, run, past, encoding, exc>>

\* img = Image.new('RGBA', (size, size), (0, 0, 0, 0)); draw = ImageDraw.Draw(img)
NewImage ==
    /\ pc = "new"
    /\ img' = NewCanvas(<<0, 0, 0, 0>>)
    /\ ops' = Append(ops, Op("new", <<size, size>>, 0, <<0, 0, 0, 0>>))
    /\ it' = 0
    /\ pc' = "gradient"
    /\ UNCHANGED <<i, stdout, writes, dirExists, file, run, past, encoding, exc>>

\* One pass through the body of: for i in range(steps)
GradientStep ==
    /\ pc = "gradient"
    /\ it < Len(Range(steps))
    /\ LET k   == Range(steps)[it + 1]
           box == GradientBox(k)
           col == GradientFill(k)
           covered == {p \in Pix : RoundedRectCovers(p, box, corner_radius)}
       IN  /\ i' = k
           /\ img' = Paint(img, covered, col)
           /\ ops' = Append(ops, Op("rounded_rectangle", box, corner_radius, col))
    /\ it' = it + 1
    /\ UNCHANGED <<pc, stdout, writes, dirExists, file, run, past, encoding, exc>>

\* range(steps) is exhausted
GradientExit ==
    /\ pc = "gradient"
    /\ it >= Len(Range(steps))
    /\ pc' = "leaf"
    /\ UNCHANGED <<img, it, i, ops, stdout, writes, dirExists, file, run, past, encoding, exc>>

\* The leaf drawn and the vein left out
DrawLeaf_novein ==
    /\ pc = "leaf"
    /\ LET covered == {p \in Pix : PolygonCovers(p, leaf_points)}
       IN  img' = Paint(img, covered, <<255, 255, 255, 255>>)
    /\ ops' = Append(ops, Op("polygon", leaf_points, 0, <<255, 255, 255, 255>>))
    /\ it' = 0
    /\ pc' = "dots"
    /\ UNCHANGED <<i, stdout, writes, dirExists, file, run, past, encoding, exc>>

\* draw.polygon(leaf_points, fill=(255, 255, 255, 255))
DrawLeaf ==
    /\ pc = "leaf"
    /\ LET covered == {p \in Pix : PolygonCovers(p, leaf_points)}
       IN  img' = Paint(img, covered, <<255, 255, 255, 255>>)
    /\ ops' = Append(ops, Op("polygon", leaf_points, 0, <<255, 255, 255, 255>>))
    /\ pc' = "vein"
    /\ UNCHANGED <<it, i, stdout, writes, dirExists, file, run, past, encoding, exc>>

\* draw.line(vein_points, fill=(255, 255, 255, 200), width=6)
DrawVein ==
    /\ pc = "vein"
    /\ LET covered == {p \in Pix : LineCovers(p, vein_points[1], vein_points[2], 6)}
       IN  img' = Paint(img, covered, <<255, 255, 255, 200>>)
    /\ ops' = Append(ops, Op("line", vein_points, 6, <<255, 255, 255, 200>>))
    /\ it' = 0
    /\ pc' = "dots"
    /\ UNCHANGED <<i, stdout, writes, dirExists, file, run, past, encoding, exc>>

\* One pass through the body of: for point in detail_points
DrawDot ==
    /\ pc = "dots"
    /\ it < Len(detail_points)
    /\ LET box == DotBox(detail_points[it + 1])
           covered == {p \in Pix : EllipseCovers(p, box)}
       IN  /\ img' = Paint(img, covered, <<255, 255, 255, 180>>)
           /\ ops' = Append(ops, Op("ellipse", box, 0, <<255, 255, 255, 180>>))
    /\ it' = it + 1
    /\ UNCHANGED <<pc, i, stdout, writes, dirExists, file, run, past, encoding, exc>>

\* detail_points is exhausted: return img; icon = create_carbon_tracker_icon()
Return ==
    /\ pc = "dots"
    /\ it >= Len(detail_points)
    /\ pc' = "save"
    /\ UNCHANGED <<img, it, i, ops, stdout, writes, dirExists, file, run, past, encoding, exc>>

\* icon.save(...) with the error swallowed
Save_swallow ==
    /\ pc = "save"
    /\ IF dirExists
       THEN file' = EncodePNG(img) /\ writes' = writes + 1
       ELSE UNCHANGED <<file, writes>>
    /\ pc' = "print1"
    /\ UNCHANGED <<img, it, i, ops, stdout, dirExists, run, past, encoding, exc>>

\* icon.save('assets/icons/app_icon.png'): opening the file for writing
\* raises when the directory is missing, and nothing catches it
Save ==
    /\ pc = "save"
    /\ IF dirExists
       THEN /\ file' = EncodePNG(img)
            /\ writes' = writes + 1
            /\ pc' = "print1"
            /\ exc' = exc
       ELSE /\ pc' = "error"
            /\ exc' = "FileNotFoundError"
            /\ UNCHANGED <<file, writes>>
    /\ UNCHANGED <<img, it, i, ops, stdout, dirExists, run, past, encoding>>

\* print('\u2705 Generated app icon: assets/icons/app_icon.png'): raises
\* UnicodeEncodeError, which nothing catches, when sys.stdout cannot encode
\* the line; nothing of the line is written then
Print1 ==
    /\ pc = "print1"
    /\ IF CanPrint(line1)
       THEN /\ stdout' = Append(stdout, line1)
            /\ pc' = "print2"
            /\ exc' = exc
       ELSE /\ pc' = "error"
            /\ exc' = "UnicodeEncodeError"
            /\ stdout' = stdout
    /\ UNCHANGED <<img, it, i, ops, writes, dirExists, file, run, past, encoding>>

\* print('\U0001F4CF Icon size: 512x512px'), likewise
Print2 ==
    /\ pc = "print2"
    /\ IF CanPrint(line2)
       THEN /\ stdout' = Append(stdout, line2)
            /\ pc' = "done"
            /\ exc' = exc
       ELSE /\ pc' = "error"
            /\ exc' = "UnicodeEncodeError"
            /\ stdout' = stdout
    /\ UNCHANGED <<img, it, i, ops, writes, dirExists, file, run, past, encoding>>

\* The script is invoked again, the earlier process having ended.  Between
\* the two invocations the output directory and the file in it may have been
\* removed, or the file replaced, and the output may go to another stream.
Rerun ==
    /\ pc \in {"done", "error"}
    /\ run < MaxRuns
    /\ past' = Append(past, [ops |-> ops, img |-> img, outcome |-> pc, exc |-> exc,
                             written |-> IF writes > 0 THEN file ELSE NoFile])
    /\ run' = run + 1
    /\ dirExists' \in BOOLEAN
    /\ file' \in {file, NoFile, StaleFile}
    /\ (~dirExists' => file' = NoFile)
    /\ pc' = "new"
    /\ img' = <<>>
    /\ it' = 0
    /\ i' = 0
    /\ ops' = <<>>
    /\ stdout' = <<>>
    /\ writes' = 0
    /\ encoding' \in Encodings
    /\ exc' = ""

\* A step of the running script
Step ==
    \/ NewImage
    \/ GradientStep
    \/ GradientExit
    \/ DrawLeaf
    \/ DrawVein
    \/ DrawDot
    \/ Return
    \/ Save
    \/ Print1
    \/ Print2

Next == Step \/ Rerun

Spec == Init /\ [][Next]_vars

\* The interpreter keeps executing the script's statements until it ends
FairSpec == Spec /\ WF_vars(Step)

--------------------------------------------------------------------------
(* Properties *)

\* The last call made on the drawing library
LastOp == ops[Len(ops)]

\* The script is past its last drawing call
Drawn == pc \in {"save", "print1", "print2", "done", "error"}

\* The body of the gradient loop has just run for the current value of i
InGradient == pc = "gradient" /\ it > 0

RectOps == SelectSeq(ops, LAMBDA o : o.op = "rounded_rectangle")

\* C1, as stated: once every drawing step has run, the pixel at (256,256)
\* is opaque white, (255,255,255,255).
C1_CentreOpaqueWhite == Drawn => img[Centre] = <<255, 255, 255, 255>>

\* C1, amended: the leaf fill makes the pixel at (256,256) opaque white; the
\* vein line, 6 pixels wide through x = 256, then stores its own fill there,
\* and no dot changes it: the final pixel is (255,255,255,200).
C1_CentreAfterVein ==
    /\ (pc = "vein" => img[Centre] = <<255, 255, 255, 255>>)
    /\ (pc = "dots" \/ Drawn => img[Centre] = <<255, 255, 255, 200>>)

C1_Witness == pc = "done" /\ Len(ops) = 56 /\ img[Centre][4] = 200

\* C2: from the allocation of the canvas on, after every drawing call, the
\* four corner pixels of the canvas have alpha 0.
C2_CornersTransparent == pc # "new" => \A c \in Corners : img[c][4] = 0

C2_Witness ==
    /\ pc = "done"
    /\ img[<<30, 49>>][4] = 255
    /\ \A c \in Corners : img[c] = <<0, 0, 0, 0>>

\* C3: when the directory is missing the save fails; the run then stops in
\* the error state, has written nothing, counts no write, has printed neither
\* status line, and no statement of the script runs after the failure.
C3_FailedSave ==
    /\ (exc = "FileNotFoundError" =>
            /\ ~dirExists
            /\ pc = "error"
            /\ stdout = <<>>
            /\ writes = 0
            /\ file = NoFile
            /\ ~ENABLED Step)
    /\ (~dirExists =>
            /\ pc \notin {"print1", "print2", "done"}
            /\ stdout = <<>>
            /\ exc \in {"", "FileNotFoundError"})
    /\ (~dirExists /\ Drawn /\ pc # "save" => exc = "FileNotFoundError")
    /\ (pc = "save" /\ ~dirExists => ENABLED Save)

C3_Witness ==
    /\ pc = "error"
    /\ exc = "FileNotFoundError"
    /\ ~dirExists
    /\ Len(ops) = 56
    /\ stdout = <<>>

\* C4: whatever the file system held when it started, a run makes the same
\* sequence of drawing calls as every earlier run, ends with the same canvas,
\* and what it writes is what every earlier run that wrote has written.
C4_Deterministic ==
    \A k \in 1..Len(past) :
        /\ Len(ops) <= Len(past[k].ops)
        /\ ops = SubSeq(past[k].ops, 1, Len(ops))
        /\ (Drawn => ops = past[k].ops /\ img = past[k].img)
        /\ (writes > 0 /\ past[k].written # NoFile => file = past[k].written)

C4_Witness ==
    /\ run = 2
    /\ pc = "done"
    /\ past[1].outcome = "done"
    /\ past[1].written = file
    /\ past[1].img = img

\* The names of the drawing calls of a complete run, in order
C5_Order ==
    <<"new">> \o [k \in 1..50 |-> "rounded_rectangle"]
              \o <<"polygon", "line", "ellipse", "ellipse", "ellipse">>

\* C5: the calls of a run are, in this order, one allocation, the gradient
\* rectangles, one polygon, one line, three ellipses; the file is written at
\* most once, and only when all of them have been made, with the final canvas.
C5_StepOrder ==
    /\ Len(ops) <= Len(C5_Order)
    /\ \A k \in 1..Len(ops) : ops[k].op = C5_Order[k]
    /\ (pc = "new" => Len(ops) = 0)
    /\ (pc = "gradient" => Len(ops) \in 1..51)
    /\ (pc = "leaf" => Len(ops) = 51)
    /\ (pc = "vein" => Len(ops) = 52)
    /\ (pc = "dots" => Len(ops) \in 53..56)
    /\ (Drawn => Len(ops) = 56)
    /\ writes \in {0, 1}
    /\ (~Drawn \/ pc = "save" \/ exc = "FileNotFoundError" => writes = 0)
    /\ (pc \in {"print1", "print2", "done"} \/ exc = "UnicodeEncodeError" =>
            writes = 1 /\ file = EncodePNG(img))

C5_Witness == pc = "done" /\ writes = 1 /\ Len(ops) = 56 /\ Len(stdout) = 2

\* C6: the gradient loop ends: a run that is in the loop reaches the leaf
\* drawing, and from then on exactly 50 rounded rectangles have been drawn,
\* the last for i = 49.
C6_LoopTerminates ==
    /\ [](pc \notin {"new", "gradient"} => Len(RectOps) = 50 /\ i = 49)
    /\ [](pc = "gradient" => Len(RectOps) = it /\ it <= 50)
    /\ ((pc = "gradient") ~> (pc = "leaf"))

C6_Witness == pc = "leaf" /\ Len(RectOps) = 50 /\ i = 49 /\ run = 2

C7_start == <<102, 187, 106>>

C7_end == <<46, 125, 50>>

\* start_c * (1 - i/49) + end_c * (i/49), times 49
C7_Num(c) == C7_start[c] * (49 - i) + C7_end[c] * i

\* C7, as stated: each channel of the fill of rectangle i is the interpolated
\* value rounded to the nearest integer, and the alpha is 255.
C7_RoundedChannels ==
    InGradient =>
        /\ \A c \in 1..3 :
              /\ 2 * 49 * LastOp.fill[c] - 49 <= 2 * C7_Num(c)
              /\ 2 * C7_Num(c) <= 2 * 49 * LastOp.fill[c] + 49
        /\ LastOp.fill[4] = 255

\* C7, amended: each channel of the fill of rectangle i is the interpolated
\* value truncated to an integer (the greatest integer not above it), and
\* the alpha is 255.
C7_TruncatedChannels ==
    InGradient =>
        /\ \A c \in 1..3 :
              /\ 49 * LastOp.fill[c] <= C7_Num(c)
              /\ C7_Num(c) < 49 * (LastOp.fill[c] + 1)
        /\ LastOp.fill[4] = 255

C7_Witness == InGradient /\ i = 1 /\ LastOp.fill = <<100, 185, 104, 255>>

\* C8: rectangle i spans (2i, 2i) to (512 - 2i, 512 - 2i) with radius 102;
\* it lies strictly inside the box of rectangle i - 1, its side 512 - 4i is
\* at least twice the radius, and the pixels it covers hold its fill.
C8_NestedRects ==
    InGradient =>
        LET box == LastOp.xy
        IN  /\ LastOp.op = "rounded_rectangle"
            /\ box = <<2 * i, 2 * i, 512 - 2 * i, 512 - 2 * i>>
            /\ LastOp.arg = 102
            /\ box[3] - box[1] = 512 - 4 * i
            /\ box[3] - box[1] >= 2 * LastOp.arg
            /\ box[4] - box[2] >= 2 * LastOp.arg
            /\ i > 0 =>
                  LET prev == ops[Len(ops) - 1].xy
                  IN  /\ prev[1] < box[1] /\ prev[2] < box[2]
                      /\ box[3] < prev[3] /\ box[4] < prev[4]
            /\ \A p \in Pix :
                  RoundedRectCovers(p, box, LastOp.arg) => img[p] = LastOp.fill

C8_Witness ==
    /\ InGradient
    /\ i = 49
    /\ LastOp.xy = <<98, 98, 414, 414>>
    /\ img[<<256, 400>>] = LastOp.fill
    /\ img[<<256, 61>>] # LastOp.fill

\* The geometry computed from a leaf size of L tenths of a pixel and the
\* centre (256,256), in hundredths of a pixel, against the calls made
C9_Geometry(L) ==
    /\ [k \in 1..8 |-> <<10 * ops[52].xy[k][1], 10 * ops[52].xy[k][2]>>] =
          << <<25600, 25600 - 10 * L>>,
             <<25600 + 6 * L, 25600 - 3 * L>>,
             <<25600 + 8 * L, 25600 + 2 * L>>,
             <<25600 + 3 * L, 25600 + 6 * L>>,
             <<25600, 25600 + 4 * L>>,
             <<25600 - 3 * L, 25600 + 6 * L>>,
             <<25600 - 8 * L, 25600 + 2 * L>>,
             <<25600 - 6 * L, 25600 - 3 * L>> >>
    /\ [k \in 1..2 |-> <<10 * ops[53].xy[k][1], 10 * ops[53].xy[k][2]>>] =
          << <<25600, 25600 - 8 * L>>, <<25600, 25600 + 3 * L>> >>
    /\ <<5 * (ops[54].xy[1] + ops[54].xy[3]), 5 * (ops[54].xy[2] + ops[54].xy[4])>> =
          <<25600 - 4 * L, 25600 - L>>
    /\ <<5 * (ops[55].xy[1] + ops[55].xy[3]), 5 * (ops[55].xy[2] + ops[55].xy[4])>> =
          <<25600 + 4 * L, 25600 + L>>
    /\ <<5 * (ops[56].xy[1] + ops[56].xy[3]), 5 * (ops[56].xy[2] + ops[56].xy[4])>> =
          <<25600 - L, 25600 + 4 * L>>

\* C9, as stated: the leaf points, the vein and the dot centres are computed
\* from leaf_size = 179.2; the vein runs from (256, 112.64) to (256, 309.76).
C9_LeafSizeUntruncated == Drawn => C9_Geometry(1792)

\* C9, amended: they are computed from leaf_size = int(512 * 0.35) = 179;
\* the vein runs from (256, 112.8) to (256, 309.7).
C9_LeafSizeTruncated == Drawn => C9_Geometry(1790)

C9_Witness ==
    /\ pc = "done"
    /\ ops[53].op = "line"
    /\ ops[53].xy = << <<2560, 1128>>, <<2560, 3097>> >>

\* C10: the fill is the start colour at i = 0 and the end colour at i = 49,
\* no channel is greater at step i than at step i - 1, and every channel
\* stays between the end colour's and the start colour's, within 0..255.
C10_MonotoneGradient ==
    InGradient =>
        /\ (i = 0 => LastOp.fill = <<102, 187, 106, 255>>)
        /\ (i = 49 => LastOp.fill = <<46, 125, 50, 255>>)
        /\ (i > 0 => \A c \in 1..3 : LastOp.fill[c] <= ops[Len(ops) - 1].fill[c])
        /\ \A c \in 1..3 :
              /\ C7_end[c] <= LastOp.fill[c] /\ LastOp.fill[c] <= C7_start[c]
              /\ LastOp.fill[c] \in 0..255

C10_Witness ==
    /\ InGradient
    /\ i = 49
    /\ LastOp.fill = <<46, 125, 50, 255>>
    /\ ops[2].fill = <<102, 187, 106, 255>>

====
